---- MODULE Spec2Model ----
(***************************************************************************)
(* Model of the gaia fee admission decorator (x/globalfee/ante/fee.go), of *)
(* the v8 upgrade handler and its repairs (app/upgrades/v8/upgrades.go)    *)
(* and of the v15 migrations exercised by app/upgrades/v15.                *)
(*                                                                         *)
(* Coins are sequences of records [denom, amount]; a sdk.Dec is the        *)
(* integer number of 10^-DecDigits units it holds.                         *)
(***************************************************************************)
EXTENDS Integers, Sequences, FiniteSets, TLC

VARIABLES
    \* ---- fee admission ----
    tx,                 \* the transaction under admission
    simulate,           \* AnteHandle's simulate flag
    isCheckTx,          \* ctx.IsCheckTx()
    globalMinGasPrices, \* globalfee param MinimumGasPricesParam (sdk.DecCoins)
    minGasPrices,       \* ctx.MinGasPrices() of every node (sdk.DecCoins)
    feeCoinsMem,        \* every node's in-memory fee slice behind feeTx.GetFee()
    pc,                 \* every node's position: "pending" or "done"
    result,             \* every node's AnteHandle outcome
    \* ---- fee computation on its own ----
    calc,               \* outcome of GetGlobalFee / GetMinGasPrice
    \* ---- admission of two declared fees side by side ----
    feePair,            \* two declared fees for the same transaction: low and high
    pairResult,         \* the AnteHandle outcome of the transaction with either fee
    \* ---- v8 upgrade ----
    bankMetadata,       \* bank denom metadata store: key -> metadata or NoMetadata
    initialMetadata,    \* the store as it was before the upgrade (history)
    fixRuns,            \* number of FixBankMetadata runs so far
    fixErr,             \* error of the last FixBankMetadata run
    versionMap,         \* module.VersionMap handed to the handler
    icaHostParams,      \* ICA host keeper params
    handler,            \* outcome of the last upgrade handler call
    \* ---- v8 stuck-funds refund ----
    balances,           \* bank uatom balance of every address
    lockedCoins,        \* uatom the bank keeper reports locked at the stuck address
    channels,           \* state of the interchain-account channels, by channel id
    sendLog,            \* the SendCoins calls made so far
    quicksilver,        \* outcome of the last QuicksilverFix run
    \* ---- v15 commission-rate floor ----
    stakingParams,      \* staking params: MinCommissionRate, in percent
    commissionRates,    \* Commission.CommissionRates.Rate of every validator, in percent
    previousRates,      \* the rates before the last MigrateMinCommissionRate run (history)
    commissionRuns,     \* number of MigrateMinCommissionRate runs so far
    commissionEdits,    \* number of validator commission edits so far
    \* ---- v15 vesting-account collapse ----
    authAccount,        \* the account record stored for the vesting address
    vestingBank,        \* bank balance (bond denomination) of the account and the module accounts
    delegationRecord,   \* the account's delegation to the validator
    validatorRecord,    \* the validator: tokens, delegator shares, status
    feePool,            \* distribution fee pool: the community pool
    blockTime,          \* ctx.BlockTime() of the migration
    vestingTrace        \* what happened so far: delegation made, migration run (history)

feeVars == <<tx, simulate, isCheckTx, globalMinGasPrices, minGasPrices, feeCoinsMem, pc, result>>
calcVars == <<calc>>
pairVars == <<feePair, pairResult>>
upgradeVars == <<bankMetadata, initialMetadata, fixRuns, fixErr, versionMap, icaHostParams, handler>>
refundVars == <<balances, lockedCoins, channels, sendLog, quicksilver>>
commissionVars == <<stakingParams, commissionRates, previousRates, commissionRuns, commissionEdits>>
vestingVars == <<authAccount, vestingBank, delegationRecord, validatorRecord, feePool, blockTime,
                 vestingTrace>>
repairVars == <<refundVars, commissionVars, vestingVars>>
vars == <<feeVars, calcVars, pairVars, upgradeVars, repairVars>>

----------------------------------------------------------------------------
(* Bounds of the model *)

\* sdk.Dec keeps 18 decimal digits; the model keeps DecDigits of them
DecDigits == 1
\* largest gas limit of a modelled transaction
MaxGas == 3
\* largest amount of a declared fee coin
MaxAmount == 1
\* largest number of coins in a declared fee
MaxFeeLen == 2
\* largest number of messages in a transaction
MaxMsgs == 1
\* largest minimum gas price (in Dec units) of the fee computation runs
MaxPrice == 25
\* largest gas limit of the fee computation runs
MaxCalcGas == 5
\* number of FixBankMetadata runs followed
MaxFixRuns == 2
\* largest uatom balance of an address before the refund
MaxBalance == 3
\* number of QuicksilverFix runs followed
MaxRefundRuns == 2
\* largest commission rate of a validator, in percent
MaxCommission == 10
\* number of MigrateMinCommissionRate runs followed
MaxCommissionRuns == 2
\* number of validator commission edits followed
MaxCommissionEdits == 1
\* largest original vesting amount, besides the 100 of the vesting scenario
MaxOrig == 4
\* the vesting schedule runs from time 0 to time VestingEnd
VestingEnd == 4
\* largest balance the account holds on top of its original vesting amount
MaxExtra == 1
\* largest amount of validator tokens and community pool coins before the delegation
MaxOther == 1
\* largest amount of a coin of the two fees admitted side by side
MaxPaid == 3

----------------------------------------------------------------------------
(* sdk.Coin, sdk.Coins, sdk.Dec *)

Denoms == {"photon", "uatom"}

\* position of a denomination in the lexical order of denomination strings
DenomRank(d) == CASE d = "photon" -> 1 [] d = "uatom" -> 2 [] OTHER -> 0

DenomLess(a, b) == DenomRank(a) < DenomRank(b)

NewCoin(d, a) == [denom |-> d, amount |-> a]

\* one unit of sdk.Dec
DecUnit == 10 ^ DecDigits

NewDec(i) == i * DecUnit

\* Dec.chopPrecisionAndRound: drop the extra digits, banker's rounding
ChopPrecisionAndRound(x) ==
    LET quo == x \div DecUnit
        rem == x % DecUnit
    IN  IF rem = 0 THEN quo
        ELSE IF 2 * rem < DecUnit THEN quo
        ELSE IF 2 * rem > DecUnit THEN quo + 1
        ELSE IF quo % 2 = 0 THEN quo ELSE quo + 1

DecMul(a, b) == ChopPrecisionAndRound(a * b)

\* Dec.Ceil that drops the fraction
DecCeilTruncates(d) == (d \div DecUnit) * DecUnit

\* Dec.Ceil: the least integral Dec not below d
DecCeil(d) ==
    LET quo == d \div DecUnit
        rem == d % DecUnit
    IN  IF rem = 0 THEN quo * DecUnit ELSE (quo + 1) * DecUnit

\* Dec.RoundInt
DecRoundInt(d) == ChopPrecisionAndRound(d)

RECURSIVE InsertCoin(_, _)
\* insertion of c after every coin whose denomination is not greater (stable)
InsertCoin(c, sorted) ==
    IF sorted = <<>> THEN <<c>>
    ELSE IF DenomLess(c.denom, Head(sorted).denom) THEN <<c>> \o sorted
    ELSE <<Head(sorted)>> \o InsertCoin(c, Tail(sorted))

RECURSIVE SortCoins(_)
\* Coins.Sort: sort.Sort by denomination (insertion sort for these lengths)
SortCoins(coins) ==
    IF coins = <<>> THEN <<>>
    ELSE InsertCoin(coins[Len(coins)], SortCoins(SubSeq(coins, 1, Len(coins) - 1)))

RECURSIVE AmountOf(_, _)
\* Coins.AmountOf: binary search in coins sorted by denomination
AmountOf(coins, d) ==
    IF Len(coins) = 0 THEN 0
    ELSE IF Len(coins) = 1 THEN (IF coins[1].denom = d THEN coins[1].amount ELSE 0)
    ELSE LET midIdx == (Len(coins) \div 2) + 1
             coin == coins[midIdx]
         IN  IF DenomLess(d, coin.denom) THEN AmountOf(SubSeq(coins, 1, midIdx - 1), d)
             ELSE IF d = coin.denom THEN coin.amount
             ELSE AmountOf(SubSeq(coins, midIdx + 1, Len(coins)), d)

\* Coins.DenomsSubsetOf
DenomsSubsetOf(coins, coinsB) ==
    IF Len(coins) > Len(coinsB) THEN FALSE
    ELSE \A i \in 1..Len(coins) : AmountOf(coinsB, coins[i].denom) # 0

\* Coins.IsAnyGTE
IsAnyGTE(coins, coinsB) ==
    IF Len(coinsB) = 0 THEN FALSE
    ELSE \E i \in 1..Len(coins) :
            LET amt == AmountOf(coinsB, coins[i].denom)
            IN  coins[i].amount >= amt /\ amt # 0

\* DecCoins.IsZero
DecCoinsIsZero(decCoins) == \A i \in 1..Len(decCoins) : decCoins[i].amount = 0

DenomSet(coins) == {coins[i].denom : i \in 1..Len(coins)}

----------------------------------------------------------------------------
(* FeeDecorator *)

\* FeeDecorator.BypassMinFeeMsgTypes
BypassMinFeeMsgTypes == {"/ibc.core.channel.v1.MsgRecvPacket"}

\* message type URLs a transaction may carry
MsgTypes == {"/ibc.core.channel.v1.MsgRecvPacket", "/cosmos.bank.v1beta1.MsgSend"}

\* FeeDecorator.MaxTotalBypassMinFeeMsgGasUsage
MaxTotalBypassMinFeeMsgGasUsage == 2

\* the staking module's bond denomination
BondDenom == "uatom"

Nodes == {"n1", "n2"}

\* FeeDecorator.getBondDenom
getBondDenom == BondDenom

\* FeeDecorator.DefaultZeroGlobalFee
DefaultZeroGlobalFee ==
    IF getBondDenom = ""
    THEN [coins |-> <<>>, err |-> "ErrEmptyBondDenom"]
    ELSE [coins |-> <<NewCoin(getBondDenom, NewDec(0))>>, err |-> ""]

\* fee = ceil(minGasPrice * gasLimit), of one minimum gas price
RequiredFee(gp, gasLimit) ==
    NewCoin(gp.denom, DecRoundInt(DecCeil(DecMul(gp.amount, NewDec(gasLimit)))))

\* FeeDecorator.GetGlobalFee
GetGlobalFee(paramPrices, gas) ==
    LET default == DefaultZeroGlobalFee
        prices  == IF Len(paramPrices) = 0 THEN default.coins ELSE paramPrices
    IN  IF Len(paramPrices) = 0 /\ default.err # ""
        THEN [coins |-> <<>>, err |-> default.err]
        ELSE [coins |-> SortCoins([i \in 1..Len(prices) |-> RequiredFee(prices[i], gas)]),
              err |-> ""]

\* GetMinGasPrice (gas limits are below 2^63, int64(gas) keeps them)
GetMinGasPrice(localPrices, gasLimit) ==
    IF DecCoinsIsZero(localPrices) THEN <<>>
    ELSE SortCoins([i \in 1..Len(localPrices) |-> RequiredFee(localPrices[i], gasLimit)])

\* CombinedFeeRequirement: per denomination of the global fee, the larger of the
\* global fee and the local fee of that denomination
CombinedFeeRequirement(globalFees, localFees) ==
    IF Len(globalFees) = 0 THEN [coins |-> <<>>, err |-> "ErrNotFound"]
    ELSE IF Len(localFees) = 0 THEN [coins |-> globalFees, err |-> ""]
    ELSE [coins |-> SortCoins([i \in 1..Len(globalFees) |->
                        IF AmountOf(localFees, globalFees[i].denom) > globalFees[i].amount
                        THEN NewCoin(globalFees[i].denom, AmountOf(localFees, globalFees[i].denom))
                        ELSE globalFees[i]]),
          err |-> ""]

\* GetTxFeeRequired that combines the local prices in every mode
GetTxFeeRequiredAlwaysCombined(checkTx, paramPrices, localPrices, gas) ==
    LET globalFees == GetGlobalFee(paramPrices, gas)
    IN  IF globalFees.err # "" THEN [coins |-> <<>>, err |-> globalFees.err]
        ELSE CombinedFeeRequirement(globalFees.coins, GetMinGasPrice(localPrices, gas))

\* GetTxFeeRequired with the two modes exchanged
GetTxFeeRequiredModesSwapped(checkTx, paramPrices, localPrices, gas) ==
    LET globalFees == GetGlobalFee(paramPrices, gas)
    IN  IF globalFees.err # "" THEN [coins |-> <<>>, err |-> globalFees.err]
        ELSE IF checkTx THEN globalFees
        ELSE CombinedFeeRequirement(globalFees.coins, GetMinGasPrice(localPrices, gas))

\* FeeDecorator.GetTxFeeRequired
GetTxFeeRequired(checkTx, paramPrices, localPrices, gas) ==
    LET globalFees == GetGlobalFee(paramPrices, gas)
    IN  IF globalFees.err # "" THEN [coins |-> <<>>, err |-> globalFees.err]
        ELSE IF ~checkTx THEN globalFees
        ELSE CombinedFeeRequirement(globalFees.coins, GetMinGasPrice(localPrices, gas))

\* getNonZeroFees: the non-zero coins of the requirement
NonZeroFees(fees) == SortCoins(SelectSeq(fees, LAMBDA c : c.amount # 0))

\* getNonZeroFees: the denominations of the zero coins of the requirement
ZeroFeesDenom(fees) == {fees[i].denom : i \in {j \in 1..Len(fees) : fees[j].amount = 0}}

\* splitCoinsByDenoms: the coins whose denomination is not in denomMap
SplitNotInDenoms(feeCoins, denomMap) ==
    SortCoins(SelectSeq(feeCoins, LAMBDA c : c.denom \notin denomMap))

\* splitCoinsByDenoms: the coins whose denomination is in denomMap
SplitInDenoms(feeCoins, denomMap) ==
    SortCoins(SelectSeq(feeCoins, LAMBDA c : c.denom \in denomMap))

\* FeeDecorator.ContainsOnlyBypassMinFeeMsgs
ContainsOnlyBypassMinFeeMsgs(msgs) ==
    \A i \in 1..Len(msgs) : msgs[i] \in BypassMinFeeMsgTypes

\* an AnteHandle outcome: next is TRUE when the next handler was called, err the
\* error kind, lane the return statement taken, got and required the coin sets of
\* the error message, feeMem the fee slice behind GetFee() after the call
Outcome(next, err, lane, got, required, feeMem) ==
    [next |-> next, err |-> err, lane |-> lane, got |-> got, required |-> required,
     feeMem |-> feeMem]

\* the error kind of the subset check of AnteHandle
SubsetCheckErr == "ErrInsufficientFee"

\* the gas ceiling of the bypass lane taken as exclusive
DoesNotExceedMaxGasUsageExclusive(gas) == gas < MaxTotalBypassMinFeeMsgGasUsage

\* doesNotExceedMaxGasUsage of AnteHandle
DoesNotExceedMaxGasUsage(gas) == gas <= MaxTotalBypassMinFeeMsgGasUsage

\* the empty-fee decision that never accepts
EmptyFeeNeverAllowed(zeroCoinFeesDenomReq) == FALSE

\* the decision of AnteHandle on an empty fee
EmptyFeeAllowed(zeroCoinFeesDenomReq) == Cardinality(zeroCoinFeesDenomReq) # 0

\* the amount check that asks for more than the required amount
ExceedsNonZeroRequirement(feeCoinsNonZeroDenom, nonZeroCoinFeesReq) ==
    \E i \in 1..Len(feeCoinsNonZeroDenom) :
        LET amt == AmountOf(nonZeroCoinFeesReq, feeCoinsNonZeroDenom[i].denom)
        IN  feeCoinsNonZeroDenom[i].amount > amt /\ amt # 0

\* the amount check that asks for the required amount exactly
MeetsNonZeroRequirementExactly(feeCoinsNonZeroDenom, nonZeroCoinFeesReq) ==
    \E i \in 1..Len(feeCoinsNonZeroDenom) :
        LET amt == AmountOf(nonZeroCoinFeesReq, feeCoinsNonZeroDenom[i].denom)
        IN  feeCoinsNonZeroDenom[i].amount = amt /\ amt # 0

\* the amount check of the last step of AnteHandle
MeetsNonZeroRequirement(feeCoinsNonZeroDenom, nonZeroCoinFeesReq) ==
    IsAnyGTE(feeCoinsNonZeroDenom, nonZeroCoinFeesReq)

\* the slice feeTx.GetFee().Sort() leaves behind GetFee()
SortedInPlace(fee) == SortCoins(fee)

\* FeeDecorator.AnteHandle on transaction t whose fee slice holds fee
AnteHandleOutcome(checkTx, paramPrices, localPrices, t, fee, sim) ==
    IF ~t.isFeeTx THEN Outcome(FALSE, "ErrTxDecode", "notFeeTx", <<>>, <<>>, fee)
    ELSE IF sim THEN Outcome(TRUE, "", "simulate", <<>>, <<>>, fee)
    ELSE
    LET feeRequired == GetTxFeeRequired(checkTx, paramPrices, localPrices, t.gas)
    IN  IF feeRequired.err # ""
        THEN Outcome(FALSE, feeRequired.err, "feeRequired", <<>>, <<>>, fee)
        ELSE IF Len(fee) > Len(feeRequired.coins)
        THEN Outcome(FALSE, "ErrInvalidCoins", "lenCheck", fee, feeRequired.coins, fee)
        ELSE
        LET feeCoins == SortCoins(fee)
            feeMem == SortedInPlace(fee)
            nonZeroCoinFeesReq == NonZeroFees(feeRequired.coins)
            zeroCoinFeesDenomReq == ZeroFeesDenom(feeRequired.coins)
            feeCoinsNonZeroDenom == SplitNotInDenoms(feeCoins, zeroCoinFeesDenomReq)
            feeCoinsZeroDenom == SplitInDenoms(feeCoins, zeroCoinFeesDenomReq)
            allowedToBypassMinFee ==
                ContainsOnlyBypassMinFeeMsgs(t.msgs) /\ DoesNotExceedMaxGasUsage(t.gas)
        IN  IF ~DenomsSubsetOf(feeCoinsNonZeroDenom, nonZeroCoinFeesReq)
            THEN Outcome(FALSE, SubsetCheckErr, "subsetCheck", feeCoins, feeRequired.coins, feeMem)
            ELSE IF allowedToBypassMinFee
            THEN Outcome(TRUE, "", "bypass", <<>>, <<>>, feeMem)
            ELSE IF Len(feeCoins) = 0
            THEN (IF EmptyFeeAllowed(zeroCoinFeesDenomReq)
                  THEN Outcome(TRUE, "", "emptyFee", <<>>, <<>>, feeMem)
                  ELSE Outcome(FALSE, "ErrInsufficientFee", "emptyFee", feeCoins, feeRequired.coins, feeMem))
            ELSE IF Len(feeCoinsZeroDenom) > 0
            THEN Outcome(TRUE, "", "zeroDenom", <<>>, <<>>, feeMem)
            ELSE IF ~MeetsNonZeroRequirement(feeCoinsNonZeroDenom, nonZeroCoinFeesReq)
            THEN Outcome(FALSE, "ErrInsufficientFee", "amountCheck", feeCoins, feeRequired.coins, feeMem)
            ELSE Outcome(TRUE, "", "amountCheck", <<>>, <<>>, feeMem)

----------------------------------------------------------------------------
(* Inputs of the fee admission *)

\* the denominations in lexical order
DenomSeq == <<"photon", "uatom">>

\* the sdk.DecCoins (sorted, one coin per denomination) holding price[d] for
\* every denomination d of priced
DecCoinsOf(priced, price) ==
    SelectSeq([i \in 1..Len(DenomSeq) |-> NewCoin(DenomSeq[i], price[DenomSeq[i]])],
              LAMBDA c : c.denom \in priced)

\* global minimum gas prices: zero or one half, for any set of denominations
GlobalPriceValues == {0, DecUnit \div 2}

GlobalPriceOptions ==
    {DecCoinsOf(priced, price) : priced \in SUBSET Denoms, price \in [Denoms -> GlobalPriceValues]}

\* a node's minimum-gas-prices: none, or 1 per gas unit in the bond denomination
LocalPriceOptions == {<<>>, <<NewCoin(BondDenom, NewDec(1))>>}

FeeCoins == [denom : Denoms, amount : 1..MaxAmount]

\* declared fees: any order, repeated denominations included
FeeOptions == UNION {[1..k -> FeeCoins] : k \in 0..MaxFeeLen}

MsgOptions == UNION {[1..k -> MsgTypes] : k \in 0..MaxMsgs}

\* a transaction that does not implement sdk.FeeTx
NoFeeTx == [isFeeTx |-> FALSE, fee |-> <<>>, gas |-> 0, msgs |-> <<>>]

TxOptions == [isFeeTx : {TRUE}, fee : FeeOptions, gas : 0..MaxGas, msgs : MsgOptions]
                \cup {NoFeeTx}

NoOutcome == Outcome(FALSE, "", "none", <<>>, <<>>, <<>>)

NotComputed == [done |-> FALSE, coins |-> <<>>]

NoCalc == [globalFee |-> NotComputed, minGasPrice |-> NotComputed]

----------------------------------------------------------------------------
(* State of the parts of the model a specification leaves idle *)

NoMetadata == [found |-> FALSE, base |-> "", name |-> "", symbol |-> ""]

IdleFee ==
    /\ tx = NoFeeTx
    /\ simulate = FALSE
    /\ isCheckTx = FALSE
    /\ globalMinGasPrices = <<>>
    /\ minGasPrices = [n \in Nodes |-> <<>>]
    /\ feeCoinsMem = [n \in Nodes |-> <<>>]
    /\ pc = [n \in Nodes |-> "idle"]
    /\ result = [n \in Nodes |-> NoOutcome]

IdleCalc == calc = NoCalc

NoPairResult == [done |-> FALSE, low |-> NoOutcome, high |-> NoOutcome]

IdlePair ==
    /\ feePair = [low |-> <<>>, high |-> <<>>]
    /\ pairResult = NoPairResult

IdleUpgrade ==
    /\ bankMetadata = [k \in {"uatom", "uatomu"} |-> NoMetadata]
    /\ initialMetadata = bankMetadata
    /\ fixRuns = 0
    /\ fixErr = ""
    /\ versionMap = <<>>
    /\ icaHostParams = [HostEnabled |-> FALSE, AllowMessages |-> <<>>]
    /\ handler = [called |-> FALSE, ok |-> FALSE, vm |-> <<>>, err |-> "", steps |-> <<>>]

\* the stuck interchain-account address and the recovery address of QuicksilverFix
sourceAddress == "cosmos13dqvh4qtg4gzczuktgnw8gc2ewnwmhdwnctekxctyr4azz4dcyysecgq7e"

destinationAddress == "cosmos1jc24kwznud9m3mwqmcz3xw33ndjuufnghstaag"

Addresses == {sourceAddress, destinationAddress}

\* the channels QuicksilverFix closes
ChannelIDs == {"channel-462", "channel-463", "channel-464", "channel-465", "channel-466"}

NoRefund == [runs |-> 0, err |-> ""]

IdleRefund ==
    /\ balances = [a \in Addresses |-> 0]
    /\ lockedCoins = 0
    /\ channels = [c \in ChannelIDs |-> "NOTFOUND"]
    /\ sendLog = <<>>
    /\ quicksilver = NoRefund

Validators == {"val1", "val2"}

IdleCommission ==
    /\ stakingParams = [MinCommissionRate |-> 0]
    /\ commissionRates = [v \in Validators |-> 0]
    /\ previousRates = commissionRates
    /\ commissionRuns = 0
    /\ commissionEdits = 0

\* the holders of coins around the vesting account: the account and the module
\* accounts of the staking pools and of distribution
BankHolders == {"account", "bonded_tokens_pool", "not_bonded_tokens_pool", "distribution"}

NoDelegation == [found |-> FALSE, shares |-> 0]

NoVestingTrace == [delegated |-> FALSE, oldValTokens |-> 0, migrated |-> FALSE]

IdleVesting ==
    /\ authAccount = [type |-> "BaseAccount",
                      baseAccount |-> [address |-> "addr1", sequence |-> 0],
                      originalVesting |-> 0, startTime |-> 0, endTime |-> 0]
    /\ vestingBank = [h \in BankHolders |-> 0]
    /\ delegationRecord = NoDelegation
    /\ validatorRecord = [tokens |-> 0, delegatorShares |-> 0, status |-> "Bonded"]
    /\ feePool = [communityPool |-> 0]
    /\ blockTime = 0
    /\ vestingTrace = NoVestingTrace

IdleRepair == IdleRefund /\ IdleCommission /\ IdleVesting

----------------------------------------------------------------------------
(* Fee admission: one transaction reaches the ante handler of every node *)

InitFee ==
    /\ tx \in TxOptions
    /\ simulate \in BOOLEAN
    /\ isCheckTx \in BOOLEAN
    /\ globalMinGasPrices \in GlobalPriceOptions
    /\ minGasPrices \in [Nodes -> LocalPriceOptions]
    /\ feeCoinsMem = [n \in Nodes |-> tx.fee]
    /\ pc = [n \in Nodes |-> "pending"]
    /\ result = [n \in Nodes |-> NoOutcome]
    /\ IdleCalc
    /\ IdlePair
    /\ IdleUpgrade
    /\ IdleRepair

\* node n runs FeeDecorator.AnteHandle on the transaction
AnteHandle(n) ==
    /\ pc[n] = "pending"
    /\ LET out == AnteHandleOutcome(isCheckTx, globalMinGasPrices, minGasPrices[n],
                                    tx, feeCoinsMem[n], simulate)
       IN  /\ result' = [result EXCEPT ![n] = out]
           /\ feeCoinsMem' = [feeCoinsMem EXCEPT ![n] = out.feeMem]
    /\ pc' = [pc EXCEPT ![n] = "done"]
    /\ UNCHANGED <<tx, simulate, isCheckTx, globalMinGasPrices, minGasPrices>>
    /\ UNCHANGED <<calcVars, upgradeVars, repairVars, pairVars>>

NextFee == \E n \in Nodes : AnteHandle(n)

Spec == InitFee /\ [][NextFee]_vars

----------------------------------------------------------------------------
(* Fee computation on its own: one minimum gas price, one gas limit *)

InitCalc ==
    /\ \E d \in Denoms, p \in 0..MaxPrice :
          /\ globalMinGasPrices = <<NewCoin(d, p)>>
          /\ minGasPrices = [n \in Nodes |-> <<NewCoin(d, p)>>]
    /\ \E g \in 0..MaxCalcGas : tx = [isFeeTx |-> TRUE, fee |-> <<>>, gas |-> g, msgs |-> <<>>]
    /\ simulate = FALSE
    /\ isCheckTx = FALSE
    /\ feeCoinsMem = [n \in Nodes |-> <<>>]
    /\ pc = [n \in Nodes |-> "idle"]
    /\ result = [n \in Nodes |-> NoOutcome]
    /\ calc = NoCalc
    /\ IdlePair
    /\ IdleUpgrade
    /\ IdleRepair

CalcGlobalFee ==
    /\ ~calc.globalFee.done
    /\ calc' = [calc EXCEPT !.globalFee =
                    [done |-> TRUE, coins |-> GetGlobalFee(globalMinGasPrices, tx.gas).coins]]
    /\ UNCHANGED <<feeVars, upgradeVars, repairVars, pairVars>>

CalcMinGasPrice ==
    /\ ~calc.minGasPrice.done
    /\ calc' = [calc EXCEPT !.minGasPrice =
                    [done |-> TRUE, coins |-> GetMinGasPrice(minGasPrices["n1"], tx.gas)]]
    /\ UNCHANGED <<feeVars, upgradeVars, repairVars, pairVars>>

NextCalc == CalcGlobalFee \/ CalcMinGasPrice

SpecCalc == InitCalc /\ [][NextCalc]_vars

----------------------------------------------------------------------------
(* Fee admission of one transaction with two declared fees, side by side *)

\* the declared fees that hold, in any order, one coin of amount amounts[d] for
\* every denomination d of the domain of amounts
FeesOf(amounts) ==
    LET coins == {NewCoin(d, amounts[d]) : d \in DOMAIN amounts}
    IN  {fee \in [1..Cardinality(coins) -> coins] :
            \A i, j \in 1..Cardinality(coins) : fee[i] = fee[j] => i = j}

\* a non-simulated transaction and two fees for it: the same denominations, and in
\* every denomination the high fee pays at least what the low fee pays
InitPair ==
    /\ \E denoms \in SUBSET Denoms :
          \E paysLow \in [denoms -> 1..MaxPaid], paysHigh \in [denoms -> 1..MaxPaid] :
              /\ \A d \in denoms : paysHigh[d] >= paysLow[d]
              /\ \E low \in FeesOf(paysLow), high \in FeesOf(paysHigh) :
                    feePair = [low |-> low, high |-> high]
    /\ \E gas \in 0..MaxGas, msgs \in MsgOptions :
          tx = [isFeeTx |-> TRUE, fee |-> feePair.low, gas |-> gas, msgs |-> msgs]
    /\ simulate = FALSE
    /\ isCheckTx \in BOOLEAN
    /\ globalMinGasPrices \in GlobalPriceOptions
    /\ \E localPrices \in LocalPriceOptions : minGasPrices = [n \in Nodes |-> localPrices]
    /\ feeCoinsMem = [n \in Nodes |-> IF n = "n1" THEN feePair.low ELSE feePair.high]
    /\ pc = [n \in Nodes |-> "idle"]
    /\ result = [n \in Nodes |-> NoOutcome]
    /\ pairResult = NoPairResult
    /\ IdleCalc
    /\ IdleUpgrade
    /\ IdleRepair

\* FeeDecorator.AnteHandle runs on the transaction with the low fee and on the same
\* transaction with the high fee, in the same context
AdmitPair ==
    /\ ~pairResult.done
    /\ LET low == AnteHandleOutcome(isCheckTx, globalMinGasPrices, minGasPrices["n1"],
                                    tx, feeCoinsMem["n1"], simulate)
           high == AnteHandleOutcome(isCheckTx, globalMinGasPrices, minGasPrices["n2"],
                                     [tx EXCEPT !.fee = feePair.high], feeCoinsMem["n2"],
                                     simulate)
       IN  /\ pairResult' = [done |-> TRUE, low |-> low, high |-> high]
           /\ feeCoinsMem' = [n \in Nodes |-> IF n = "n1" THEN low.feeMem ELSE high.feeMem]
    /\ UNCHANGED <<tx, simulate, isCheckTx, globalMinGasPrices, minGasPrices, pc, result>>
    /\ UNCHANGED <<feePair, calcVars, upgradeVars, repairVars>>

NextPair == AdmitPair

SpecPair == InitPair /\ [][NextPair]_vars

----------------------------------------------------------------------------
(* Properties of the fee admission *)

\* node n has run the fee check proper on the transaction
FeeChecked(n) == pc[n] = "done" /\ tx.isFeeTx /\ ~simulate

\* the fee requirement node n computed for the transaction
Required(n) == GetTxFeeRequired(isCheckTx, globalMinGasPrices, minGasPrices[n], tx.gas).coins

ZeroRateDenoms(n) ==
    LET req == Required(n) IN {req[i].denom : i \in {j \in 1..Len(req) : req[j].amount = 0}}

BypassEligible ==
    /\ tx.gas <= MaxTotalBypassMinFeeMsgGasUsage
    /\ \A i \in 1..Len(tx.msgs) : tx.msgs[i] \in BypassMinFeeMsgTypes

\* the call did not return from the length check or the subset check
PassedDenomChecks(n) == result[n].lane \notin {"feeRequired", "lenCheck", "subsetCheck"}

\* a and b hold the same coins, each as many times
SameCoins(a, b) ==
    /\ Len(a) = Len(b)
    /\ \A c \in {a[i] : i \in 1..Len(a)} \cup {b[i] : i \in 1..Len(b)} :
          Cardinality({i \in 1..Len(a) : a[i] = c}) = Cardinality({i \in 1..Len(b) : b[i] = c})

\* C1: a non-simulated transaction whose declared fee has a denomination outside
\* the fee requirement is rejected, the next handler is not called, and the error
\* kind is the denomination mismatch kind (ErrInvalidCoins), not ErrInsufficientFee,
\* from the length check and from the subset check alike, bypass-eligible or not.
C1_DenomMismatchKind ==
    \A n \in Nodes :
        (FeeChecked(n) /\ ~(DenomSet(tx.fee) \subseteq DenomSet(Required(n))))
            => (~result[n].next /\ result[n].err = "ErrInvalidCoins")

\* C2: a non-simulated transaction with gas <= MaxTotalBypassMinFeeMsgGasUsage, only
\* bypass message types and a fee that passed the denomination checks reaches the
\* next handler whatever its fee amounts; the bypass lane is taken by no transaction
\* with more gas or with a message of another type.
C2_BypassLane ==
    \A n \in Nodes :
        FeeChecked(n) =>
            /\ (BypassEligible /\ PassedDenomChecks(n))
                  => (result[n].next /\ result[n].err = "" /\ result[n].lane = "bypass")
            /\ result[n].lane = "bypass"
                  => /\ tx.gas <= MaxTotalBypassMinFeeMsgGasUsage
                     /\ \A i \in 1..Len(tx.msgs) : tx.msgs[i] \in BypassMinFeeMsgTypes

\* a bypass transaction was admitted with a fee below every required amount
C2_Witness ==
    \E n \in Nodes :
        /\ FeeChecked(n) /\ result[n].lane = "bypass" /\ result[n].next
        /\ tx.gas = MaxTotalBypassMinFeeMsgGasUsage /\ Len(tx.msgs) > 0
        /\ Len(tx.fee) > 0
        /\ LET req == Required(n)
           IN  \A i \in 1..Len(tx.fee) : \E j \in 1..Len(req) :
                  /\ req[j].denom = tx.fee[i].denom
                  /\ tx.fee[i].amount < req[j].amount

\* C3: outside CheckTx two nodes that differ only in their local minimum gas prices
\* compute the same requirement, the global fee alone, and return the same outcome.
C3_DeliverIgnoresLocalPrices ==
    ~isCheckTx =>
        LET globalFee == GetGlobalFee(globalMinGasPrices, tx.gas).coins
        IN  /\ \A n \in Nodes : Required(n) = globalFee
            /\ \A n \in Nodes, m \in Nodes :
                  (pc[n] = "done" /\ pc[m] = "done") => result[n] = result[m]

\* two nodes whose local prices would decide differently in CheckTx agreed
C3_Witness ==
    /\ ~isCheckTx /\ ~simulate /\ tx.isFeeTx
    /\ \A n \in Nodes : pc[n] = "done"
    /\ result["n1"] = result["n2"] /\ result["n1"].next
    /\ minGasPrices["n1"] # minGasPrices["n2"]
    /\ \E n \in Nodes :
          ~AnteHandleOutcome(TRUE, globalMinGasPrices, minGasPrices[n], tx, tx.fee, simulate).next

C6_AnyDenomClearsThreshold ==
    \A n \in Nodes :
        (/\ FeeChecked(n) /\ ~BypassEligible /\ PassedDenomChecks(n)
         /\ Len(tx.fee) > 0 /\ DenomSet(tx.fee) \cap ZeroRateDenoms(n) = {})
        => LET req == Required(n)
           IN  /\ result[n].next <=>
                     \E i \in 1..Len(tx.fee) : \E j \in 1..Len(req) :
                         /\ req[j].denom = tx.fee[i].denom
                         /\ tx.fee[i].amount >= req[j].amount
               /\ ~result[n].next =>
                     /\ result[n].err = "ErrInsufficientFee"
                     /\ SameCoins(result[n].got, tx.fee)
                     /\ result[n].required = req

\* a fee of two denominations was admitted with one amount short of its requirement
C6_Witness ==
    \E n \in Nodes :
        /\ FeeChecked(n) /\ ~BypassEligible /\ result[n].next
        /\ result[n].lane = "amountCheck"
        /\ Len(tx.fee) = 2 /\ tx.fee[1].denom # tx.fee[2].denom
        /\ LET req == Required(n)
           IN  \E i \in 1..2 : \E j \in 1..Len(req) :
                  /\ req[j].denom = tx.fee[i].denom
                  /\ tx.fee[i].amount < req[j].amount

\* C7: a non-simulated, non-bypass transaction with an empty fee reaches the next
\* handler exactly when the requirement has a zero-amount coin, which it has when
\* the global fee is unset and the node has no local price; otherwise the error is
\* ErrInsufficientFee.
C7_EmptyFee ==
    \A n \in Nodes :
        (FeeChecked(n) /\ ~BypassEligible /\ tx.fee = <<>>)
        => /\ result[n].next <=>
                 LET req == Required(n) IN \E j \in 1..Len(req) : req[j].amount = 0
           /\ ~result[n].next => result[n].err = "ErrInsufficientFee"
           /\ (globalMinGasPrices = <<>> /\ DecCoinsIsZero(minGasPrices[n])) => result[n].next

\* an empty fee was admitted in CheckTx with the global fee unset and no local price,
\* against the default zero coin of the bond denomination
C7_Witness ==
    \E n \in Nodes :
        /\ FeeChecked(n) /\ ~BypassEligible /\ tx.fee = <<>> /\ isCheckTx /\ tx.gas > 0
        /\ globalMinGasPrices = <<>> /\ minGasPrices[n] = <<>>
        /\ result[n].next /\ Required(n) = <<NewCoin(BondDenom, 0)>>

\* C8: a call of AnteHandle leaves the transaction's fee coins (content and order),
\* the global fee parameter and the local minimum gas prices as they were.
C8_NoSideEffect ==
    [][\A n \in Nodes :
          (pc[n] = "pending" /\ pc'[n] = "done")
              => /\ feeCoinsMem'[n] = feeCoinsMem[n]
                 /\ globalMinGasPrices' = globalMinGasPrices
                 /\ minGasPrices' = minGasPrices]_vars

\* C15: admission is monotone in the declared amounts: in one context (CheckTx flag,
\* fee parameters, local prices), for one gas limit and message list, when AnteHandle
\* accepts the transaction with a declared fee it also accepts it with any fee of
\* exactly the same denominations whose amount is at least as large in every
\* denomination; paying more never turns an accept into a reject.
C15_AdmissionMonotone ==
    pairResult.done =>
        (pairResult.low.next => (pairResult.high.next /\ pairResult.high.err = ""))

\* a fee of two denominations was accepted by the amount check, and so was a fee
\* paying more in one of them, while a smaller fee of that kind is rejected
C15_Witness ==
    /\ pairResult.done
    /\ pairResult.low.next /\ pairResult.low.lane = "amountCheck"
    /\ pairResult.high.next /\ pairResult.high.lane = "amountCheck"
    /\ Len(feePair.low) = 2
    /\ \E i, j \in 1..2 : /\ feePair.low[i].denom = feePair.high[j].denom
                          /\ feePair.low[i].amount < feePair.high[j].amount
    /\ \E i \in 1..2 :
          ~AnteHandleOutcome(isCheckTx, globalMinGasPrices, minGasPrices["n1"],
                             [tx EXCEPT !.fee = <<NewCoin(feePair.low[i].denom, 1)>>],
                             <<NewCoin(feePair.low[i].denom, 1)>>, simulate).next

----------------------------------------------------------------------------
(* Properties of the fee computation *)

\* C5: the amount GetGlobalFee and GetMinGasPrice require for a denomination priced
\* p at gas limit g is ceil(p * g): not below p * g, less than p * g + 1, and at
\* least 1 when p > 0 and g > 0 (GetMinGasPrice requires nothing when p = 0).
C5_CeilRounding ==
    LET p == globalMinGasPrices[1].amount
        d == globalMinGasPrices[1].denom
        g == tx.gas
        IsCeil(a) == /\ a * DecUnit >= p * g
                     /\ a * DecUnit < p * g + DecUnit
                     /\ (p > 0 /\ g > 0) => a >= 1
    IN  /\ calc.globalFee.done =>
              /\ Len(calc.globalFee.coins) = 1
              /\ calc.globalFee.coins[1].denom = d
              /\ IsCeil(calc.globalFee.coins[1].amount)
        /\ calc.minGasPrice.done =>
              IF p = 0 THEN calc.minGasPrice.coins = <<>>
              ELSE /\ Len(calc.minGasPrice.coins) = 1
                   /\ calc.minGasPrice.coins[1].denom = d
                   /\ IsCeil(calc.minGasPrice.coins[1].amount)

\* price 0.1 at gas limit 3: both functions have run and require 1, not 0
C5_Witness ==
    /\ calc.globalFee.done /\ calc.minGasPrice.done
    /\ globalMinGasPrices[1].amount * 10 = DecUnit /\ tx.gas = 3
    /\ calc.globalFee.coins[1].amount = 1
    /\ calc.minGasPrice.coins[1].amount = 1

----------------------------------------------------------------------------
(* v8 upgrade: FixBankMetadata and the upgrade handler *)

MetadataKeys == {"uatom", "uatomu"}

\* BankKeeper.GetDenomMetaData
GetDenomMetaData(store, denom) == store[denom]

\* BankKeeper.SetDenomMetaData: the entry is stored under its Base
SetDenomMetaData(store, md) == [store EXCEPT ![md.base] = md]

\* prefix store Delete of the metadata key
DeleteDenomMetaData(store, key) == [store EXCEPT ![key] = NoMetadata]

\* FixBankMetadata that takes the malformed key to be there
FixBankMetadataUngated(store) ==
    LET malformed == GetDenomMetaData(store, "uatomu")
        resaved == DeleteDenomMetaData(SetDenomMetaData(store, malformed), "uatomu")
        correct == GetDenomMetaData(resaved, "uatom")
    IN  IF ~malformed.found
        THEN [store |-> store, err |-> "malformed 'uatomu' denom not fixed"]
        ELSE IF ~correct.found THEN [store |-> resaved, err |-> "atom denom not found"]
        ELSE [store |-> SetDenomMetaData(resaved,
                            [correct EXCEPT !.name = "Cosmos Hub Atom", !.symbol = "ATOM"]),
              err |-> "nil"]

\* FixBankMetadata: the store it leaves and the error it returns ("nil": none)
FixBankMetadata(store) ==
    LET malformedDenom == "uatomu"
        correctDenom == "uatom"
        malformed == GetDenomMetaData(store, malformedDenom)
        resaved == IF malformed.found
                   THEN DeleteDenomMetaData(SetDenomMetaData(store, malformed), malformedDenom)
                   ELSE store
        correct == GetDenomMetaData(resaved, correctDenom)
    IN  IF malformed.found /\ GetDenomMetaData(resaved, malformedDenom).found
        THEN [store |-> resaved, err |-> "malformed 'uatomu' denom not fixed"]
        ELSE IF ~correct.found THEN [store |-> resaved, err |-> "atom denom not found"]
        ELSE [store |-> SetDenomMetaData(resaved,
                            [correct EXCEPT !.name = "Cosmos Hub Atom", !.symbol = "ATOM"]),
              err |-> "nil"]

Modules == {"bank", "icahost"}

\* the consensus version every module registers in this binary
ConsensusVersion(m) == CASE m = "bank" -> 2 [] m = "icahost" -> 2 [] OTHER -> 1

\* module.Manager.RunMigrations: the version map and the error it returns; ok is
\* whether every module's migration succeeded
RunMigrations(fromVM, ok) ==
    IF ok THEN [vm |-> [m \in Modules |-> ConsensusVersion(m)], err |-> "nil"]
    ELSE [vm |-> <<>>, err |-> "migration failed"]

\* the host parameters the handler writes
WildcardHostParams == [HostEnabled |-> TRUE, AllowMessages |-> <<"*">>]

\* an upgrade handler that goes on after a failed migration
UpgradeHandlerGoesOn(fromVM, hostParams, ok) ==
    LET migrated == RunMigrations(fromVM, ok)
    IN  [vm |-> migrated.vm, err |-> migrated.err, hostParams |-> WildcardHostParams,
         steps |-> <<"RunMigrations", "SetParams">>]

\* the handler CreateUpgradeHandler returns: the version map and error it returns,
\* the host parameters it leaves and the steps it took
UpgradeHandler(fromVM, hostParams, ok) ==
    LET migrated == RunMigrations(fromVM, ok)
    IN  IF migrated.err # "nil"
        THEN [vm |-> migrated.vm, err |-> migrated.err, hostParams |-> hostParams,
              steps |-> <<"RunMigrations">>]
        ELSE [vm |-> migrated.vm, err |-> migrated.err, hostParams |-> WildcardHostParams,
              steps |-> <<"RunMigrations", "SetParams">>]

MetadataNames == {"", "Cosmos Hub Atom"}

MetadataSymbols == {"", "ATOM"}

\* entries the keeper wrote are stored under their Base; the malformed key may hold
\* the uatom entry
MetadataStores ==
    {[k \in MetadataKeys |-> IF k = "uatom" THEN c ELSE u] :
        c \in [found : {TRUE}, base : {"uatom"}, name : MetadataNames, symbol : MetadataSymbols]
                \cup {NoMetadata},
        u \in [found : {TRUE}, base : MetadataKeys, name : MetadataNames, symbol : MetadataSymbols]
                \cup {NoMetadata}}

HostParamsOptions ==
    [HostEnabled : BOOLEAN, AllowMessages : {<<>>, <<"/cosmos.bank.v1beta1.MsgSend">>, <<"*">>}]

NotCalled == [called |-> FALSE, ok |-> FALSE, vm |-> <<>>, err |-> "", steps |-> <<>>]

InitUpgrade ==
    /\ IdleFee
    /\ IdleCalc
    /\ IdlePair
    /\ bankMetadata \in MetadataStores
    /\ initialMetadata = bankMetadata
    /\ fixRuns = 0
    /\ fixErr = ""
    /\ versionMap \in [Modules -> 1..2]
    /\ icaHostParams \in HostParamsOptions
    /\ handler = NotCalled
    /\ IdleRepair

\* one run of FixBankMetadata
RunFixBankMetadata ==
    /\ fixRuns < MaxFixRuns
    /\ LET out == FixBankMetadata(bankMetadata)
       IN  /\ bankMetadata' = out.store
           /\ fixErr' = out.err
    /\ fixRuns' = fixRuns + 1
    /\ UNCHANGED <<initialMetadata, versionMap, icaHostParams, handler>>
    /\ UNCHANGED <<feeVars, calcVars, repairVars, pairVars>>

\* the upgrade module calls the handler at the plan's height; ok is the outcome of
\* the module migrations
RunUpgradeHandler(ok) ==
    /\ ~handler.called
    /\ LET out == UpgradeHandler(versionMap, icaHostParams, ok)
       IN  /\ icaHostParams' = out.hostParams
           /\ handler' = [called |-> TRUE, ok |-> ok, vm |-> out.vm, err |-> out.err,
                          steps |-> out.steps]
    /\ UNCHANGED <<bankMetadata, initialMetadata, fixRuns, fixErr, versionMap>>
    /\ UNCHANGED <<feeVars, calcVars, repairVars, pairVars>>

NextUpgrade == RunFixBankMetadata \/ \E ok \in BOOLEAN : RunUpgradeHandler(ok)

SpecUpgrade == InitUpgrade /\ [][NextUpgrade]_vars

----------------------------------------------------------------------------
(* Properties of the v8 upgrade *)

\* C9: FixBankMetadata is idempotent: after a run that returned nil, the next run
\* finds no malformed key, returns nil too and leaves the store as it was.
C9_FixBankMetadataIdempotent ==
    [][(fixRuns >= 1 /\ fixErr = "nil" /\ fixRuns' = fixRuns + 1)
          => /\ ~GetDenomMetaData(bankMetadata, "uatomu").found
             /\ fixErr' = "nil"
             /\ bankMetadata' = bankMetadata]_vars

\* the store held the uatom entry under the malformed key only, and two runs
\* have succeeded
C9_Witness ==
    /\ fixRuns = 2 /\ fixErr = "nil"
    /\ initialMetadata["uatomu"].found /\ ~initialMetadata["uatom"].found
    /\ bankMetadata # initialMetadata

\* C14: whenever FixBankMetadata returns nil, nothing is readable under the malformed
\* key 'uatomu' and the entry under 'uatom' exists with Name 'Cosmos Hub Atom' and
\* Symbol 'ATOM'; metadata that was stored under the malformed key has been re-saved
\* under the correct key, so an entry exists there after the run; the function
\* returns an error when the malformed key is still readable or no entry exists
\* under the correct key, and never returns nil with the malformed key present.
C14_FixBankMetadataOutcome ==
    [][(fixRuns' = fixRuns + 1) =>
          LET malformedBefore == GetDenomMetaData(bankMetadata, "uatomu")
              malformedAfter == GetDenomMetaData(bankMetadata', "uatomu")
              correctAfter == GetDenomMetaData(bankMetadata', "uatom")
          IN  /\ fixErr' = "nil" =>
                    /\ ~malformedAfter.found
                    /\ correctAfter.found
                    /\ correctAfter.name = "Cosmos Hub Atom"
                    /\ correctAfter.symbol = "ATOM"
              /\ malformedBefore.found => correctAfter.found
              /\ (malformedAfter.found \/ ~correctAfter.found) => fixErr' # "nil"]_vars

\* C10: the handler runs the module migrations first; when they fail it returns
\* their error, takes no further step and leaves the ICA host parameters as they
\* were; it returns no error only when no step failed, and then it returns the
\* version map of RunMigrations.
C10_HandlerAbortsOnError ==
    [][(~handler.called /\ handler'.called)
          => /\ handler'.steps[1] = "RunMigrations"
             /\ ~handler'.ok =>
                   /\ handler'.err = "migration failed"
                   /\ handler'.steps = <<"RunMigrations">>
                   /\ icaHostParams' = icaHostParams
             /\ handler'.ok =>
                   /\ handler'.err = "nil"
                   /\ handler'.vm = [m \in Modules |-> ConsensusVersion(m)]
                   /\ icaHostParams' = WildcardHostParams]_vars

\* the migrations failed under host parameters that whitelist one message, and the
\* handler returned the error
C10_Witness ==
    /\ handler.called /\ ~handler.ok /\ handler.err = "migration failed"
    /\ icaHostParams.AllowMessages = <<"/cosmos.bank.v1beta1.MsgSend">>

----------------------------------------------------------------------------
(* v8 upgrade: QuicksilverFix *)

\* sdk.NewCoins: the coins without the zero ones, sorted
NewCoins(coins) == SortCoins(SelectSeq(coins, LAMBDA c : c.amount # 0))

\* Coin.IsGTE
IsGTE(coin, other) == coin.amount >= other.amount

\* Coin.SubAmount
SubAmount(coin, amount) == NewCoin(coin.denom, coin.amount - amount)

\* BankKeeper.GetBalance of uatom
GetBalance(bal, addr) == NewCoin("uatom", bal[addr])

\* BankKeeper.SendCoins: every coin of amt must be spendable (balance less locked) at
\* fromAddr; the balances it leaves and its error ("nil": none)
SendCoins(bal, locked, fromAddr, toAddr, amt) ==
    LET moved == AmountOf(amt, "uatom")
    IN  IF \E i \in 1..Len(amt) : bal[fromAddr] - locked < amt[i].amount
        THEN [balances |-> bal, err |-> "ErrInsufficientFunds"]
        ELSE [balances |-> [bal EXCEPT ![fromAddr] = @ - moved, ![toAddr] = @ + moved],
              err |-> "nil"]

ChannelStates == {"NOTFOUND", "OPEN", "CLOSED"}

\* closeChannel: a channel that is found is set to CLOSED
closeChannel(chans, channelID) ==
    IF chans[channelID] # "NOTFOUND" THEN [chans EXCEPT ![channelID] = "CLOSED"] ELSE chans

\* the refund guard of QuicksilverFix
RefundGuard(sourceBalance) == IsGTE(sourceBalance, NewCoin("uatom", 1))

\* QuicksilverFix: the balances and channels it leaves, the SendCoins calls it made
\* and the error it returns ("nil": none)
QuicksilverFix(bal, locked, chans) ==
    LET sourceBalance == GetBalance(bal, sourceAddress)
        refundBalance == SubAmount(sourceBalance, 1)
        amt == NewCoins(<<refundBalance>>)
        sent == SendCoins(bal, locked, sourceAddress, destinationAddress, amt)
        call == [fromAddr |-> sourceAddress, toAddr |-> destinationAddress,
                 amt |-> amt, err |-> sent.err]
        closed == closeChannel(closeChannel(closeChannel(closeChannel(closeChannel(chans,
                    "channel-462"), "channel-463"), "channel-464"), "channel-465"), "channel-466")
    IN  IF RefundGuard(sourceBalance)
        THEN IF sent.err # "nil"
             THEN [balances |-> sent.balances, channels |-> chans, sends |-> <<call>>,
                   err |-> "unable to refund coins"]
             ELSE [balances |-> sent.balances, channels |-> closed, sends |-> <<call>>,
                   err |-> "nil"]
        ELSE [balances |-> bal, channels |-> closed, sends |-> <<>>, err |-> "nil"]

InitRefund ==
    /\ IdleFee
    /\ IdleCalc
    /\ IdlePair
    /\ IdleUpgrade
    /\ IdleCommission
    /\ IdleVesting
    /\ balances \in [Addresses -> 0..MaxBalance]
    /\ lockedCoins \in 0..balances[sourceAddress]
    /\ channels \in [ChannelIDs -> ChannelStates]
    /\ sendLog = <<>>
    /\ quicksilver = NoRefund

\* one run of QuicksilverFix
RunQuicksilverFix ==
    /\ quicksilver.runs < MaxRefundRuns
    /\ LET out == QuicksilverFix(balances, lockedCoins, channels)
       IN  /\ balances' = out.balances
           /\ channels' = out.channels
           /\ sendLog' = sendLog \o out.sends
           /\ quicksilver' = [runs |-> quicksilver.runs + 1, err |-> out.err]
    /\ UNCHANGED lockedCoins
    /\ UNCHANGED <<feeVars, calcVars, upgradeVars, commissionVars, vestingVars, pairVars>>

NextRefund == RunQuicksilverFix

SpecRefund == InitRefund /\ [][NextRefund]_vars

----------------------------------------------------------------------------
(* Properties of QuicksilverFix *)

\* C11: for a uatom balance b at the stuck address, a run of QuicksilverFix makes a
\* transfer to the recovery address only when b >= 2 (one minimal unit above the
\* 1 uatom poisoned amount); a transfer that succeeds moves exactly b - 1: the stuck
\* address is left with 1 uatom, the recovery address gains b - 1 and the sum of the
\* two balances is unchanged; when b < 2 both balances are unchanged.
C11_RefundAboveOneUatom ==
    [][(quicksilver'.runs = quicksilver.runs + 1) =>
          LET b == balances[sourceAddress]
              transferred == Len(sendLog') > Len(sendLog)
          IN  /\ transferred => b >= 2
              /\ (transferred /\ quicksilver'.err = "nil") =>
                    /\ sendLog'[Len(sendLog')].amt = <<NewCoin("uatom", b - 1)>>
                    /\ balances'[sourceAddress] = 1
                    /\ balances'[destinationAddress] = balances[destinationAddress] + (b - 1)
              /\ balances'[sourceAddress] + balances'[destinationAddress]
                    = balances[sourceAddress] + balances[destinationAddress]
              /\ b < 2 => balances' = balances]_vars

----------------------------------------------------------------------------
(* v15 upgrade: MigrateMinCommissionRate *)

\* the minimum commission rate the migration sets: sdk.NewDecWithPrec(5, 2), 5 percent
NewMinCommissionRate == 5

\* the migration that raises only the validators at or below the minimum it replaces
MigrateMinCommissionRateAtOldMinimum(params, rates) ==
    [params |-> [params EXCEPT !.MinCommissionRate = NewMinCommissionRate],
     rates |-> [v \in DOMAIN rates |->
                  IF rates[v] <= params.MinCommissionRate /\ rates[v] < NewMinCommissionRate
                  THEN NewMinCommissionRate ELSE rates[v]]]

\* MigrateMinCommissionRate: the staking params and the validators' rates it leaves
MigrateMinCommissionRate(params, rates) ==
    [params |-> [params EXCEPT !.MinCommissionRate = NewMinCommissionRate],
     rates |-> [v \in DOMAIN rates |->
                  IF rates[v] < NewMinCommissionRate THEN NewMinCommissionRate ELSE rates[v]]]

InitCommission ==
    /\ IdleFee
    /\ IdleCalc
    /\ IdlePair
    /\ IdleUpgrade
    /\ IdleRefund
    /\ IdleVesting
    /\ stakingParams \in [MinCommissionRate : 0..MaxCommission]
    /\ commissionRates \in [Validators -> 0..MaxCommission]
    /\ previousRates = commissionRates
    /\ commissionRuns = 0
    /\ commissionEdits = 0

\* one run of MigrateMinCommissionRate
RunMigrateMinCommissionRate ==
    /\ commissionRuns < MaxCommissionRuns
    /\ LET out == MigrateMinCommissionRate(stakingParams, commissionRates)
       IN  /\ stakingParams' = out.params
           /\ commissionRates' = out.rates
    /\ previousRates' = commissionRates
    /\ commissionRuns' = commissionRuns + 1
    /\ UNCHANGED commissionEdits
    /\ UNCHANGED <<feeVars, calcVars, upgradeVars, refundVars, vestingVars, pairVars>>

\* a validator sets its commission rate, not below the minimum in force
SetValidatorCommission(v, rate) ==
    /\ commissionEdits < MaxCommissionEdits
    /\ rate >= stakingParams.MinCommissionRate
    /\ commissionRates' = [commissionRates EXCEPT ![v] = rate]
    /\ commissionEdits' = commissionEdits + 1
    /\ UNCHANGED <<stakingParams, previousRates, commissionRuns>>
    /\ UNCHANGED <<feeVars, calcVars, upgradeVars, refundVars, vestingVars, pairVars>>

NextCommission ==
    \/ RunMigrateMinCommissionRate
    \/ \E v \in Validators, rate \in 0..MaxCommission : SetValidatorCommission(v, rate)

SpecCommission == InitCommission /\ [][NextCommission]_vars

----------------------------------------------------------------------------
(* Properties of MigrateMinCommissionRate *)

----------------------------------------------------------------------------
(* v15 upgrade: MigrateVestingAccount *)

\* Dec.Quo: the quotient with the extra digits chopped, banker's rounding
DecQuo(a, b) == ChopPrecisionAndRound((a * DecUnit * DecUnit) \div b)

\* ContinuousVestingAccount.GetVestedCoins, of the bond denomination
GetVestedCoins(acc, time) ==
    IF time <= acc.startTime THEN 0
    ELSE IF time >= acc.endTime THEN acc.originalVesting
    ELSE LET x == time - acc.startTime
             y == acc.endTime - acc.startTime
             scale == DecQuo(NewDec(x), NewDec(y))
         IN  DecRoundInt(DecMul(NewDec(acc.originalVesting), scale))

\* ContinuousVestingAccount.GetVestingCoins, of the bond denomination
GetVestingCoins(acc, time) == acc.originalVesting - GetVestedCoins(acc, time)

\* the staking pool that holds the tokens of a validator of this status
PoolOf(status) == IF status = "Bonded" THEN "bonded_tokens_pool" ELSE "not_bonded_tokens_pool"

\* stakingKeeper.Delegate of amt from the account's balance: one share per token
Delegate(bank, del, val, amt) ==
    [bank |-> [bank EXCEPT !["account"] = @ - amt, ![PoolOf(val.status)] = @ + amt],
     delegation |-> [found |-> TRUE, shares |-> del.shares + amt],
     validator |-> [val EXCEPT !.tokens = @ + amt, !.delegatorShares = @ + amt]]

\* the forced unbonding of every delegation of the account: the delegation is
\* removed and its tokens go from the validator's pool back to the account
ForceUnbondAllDelegations(bank, del, val) ==
    IF ~del.found THEN [bank |-> bank, delegation |-> del, validator |-> val]
    ELSE [bank |-> [bank EXCEPT ![PoolOf(val.status)] = @ - del.shares,
                                !["account"] = @ + del.shares],
          delegation |-> NoDelegation,
          validator |-> [val EXCEPT !.tokens = @ - del.shares,
                                    !.delegatorShares = @ - del.shares]]

\* the forced funding of the community pool from the account, locked coins included
ForceFundCommunityPool(bank, pool, amt) ==
    [bank |-> [bank EXCEPT !["account"] = @ - amt, !["distribution"] = @ + amt],
     feePool |-> [pool EXCEPT !.communityPool = @ + amt]]

\* the account record the migration leaves: the embedded base account
BaseAccountOf(acc) ==
    [type |-> "BaseAccount", baseAccount |-> acc.baseAccount,
     originalVesting |-> 0, startTime |-> 0, endTime |-> 0]

\* the migration that hands the coins still vesting back to the account
MigrateVestingAccountRefunds(acc, bank, del, val, pool, time) ==
    LET unbonded == ForceUnbondAllDelegations(bank, del, val)
    IN  [account |-> BaseAccountOf(acc), bank |-> unbonded.bank,
         delegation |-> unbonded.delegation, validator |-> unbonded.validator,
         feePool |-> pool]

\* MigrateVestingAccount: undelegate everything, move the coins still vesting at the
\* block time into the community pool, store the account as its base account
MigrateVestingAccount(acc, bank, del, val, pool, time) ==
    LET unbonded == ForceUnbondAllDelegations(bank, del, val)
        vestingCoins == GetVestingCoins(acc, time)
        funded == ForceFundCommunityPool(unbonded.bank, pool, vestingCoins)
    IN  [account |-> BaseAccountOf(acc), bank |-> funded.bank,
         delegation |-> unbonded.delegation, validator |-> unbonded.validator,
         feePool |-> funded.feePool]

\* the original vesting amounts followed: the small ones and the 100 of the scenario
OrigOptions == 1..MaxOrig \cup {100}

\* a continuous vesting account funded with its original vesting amount (and maybe
\* more), nothing delegated yet, in front of a validator with tokens of its own
InitVesting ==
    /\ IdleFee
    /\ IdleCalc
    /\ IdlePair
    /\ IdleUpgrade
    /\ IdleRefund
    /\ IdleCommission
    /\ \E orig \in OrigOptions, extra \in 0..MaxExtra, seq \in 0..1,
          tokens \in 0..MaxOther, community \in 0..MaxOther,
          status \in {"Bonded", "Unbonded"} :
          /\ authAccount = [type |-> "ContinuousVestingAccount",
                            baseAccount |-> [address |-> "addr1", sequence |-> seq],
                            originalVesting |-> orig, startTime |-> 0, endTime |-> VestingEnd]
          /\ vestingBank = [h \in BankHolders |->
                              CASE h = "account" -> orig + extra
                                [] h = PoolOf(status) -> tokens
                                [] h = "distribution" -> community
                                [] OTHER -> 0]
          /\ validatorRecord = [tokens |-> tokens, delegatorShares |-> tokens, status |-> status]
          /\ feePool = [communityPool |-> community]
    /\ delegationRecord = NoDelegation
    /\ blockTime \in 0..(VestingEnd + 1)
    /\ vestingTrace = NoVestingTrace

\* the account delegates amt of its balance to the validator
RunDelegate(amt) ==
    /\ ~vestingTrace.delegated /\ ~vestingTrace.migrated
    /\ amt <= vestingBank["account"]
    /\ LET out == Delegate(vestingBank, delegationRecord, validatorRecord, amt)
       IN  /\ vestingBank' = out.bank
           /\ delegationRecord' = out.delegation
           /\ validatorRecord' = out.validator
    /\ vestingTrace' = [vestingTrace EXCEPT !.delegated = TRUE,
                                            !.oldValTokens = validatorRecord.tokens]
    /\ UNCHANGED <<authAccount, feePool, blockTime>>
    /\ UNCHANGED <<feeVars, calcVars, upgradeVars, refundVars, commissionVars, pairVars>>

\* the upgrade runs MigrateVestingAccount on the account at the block time
RunMigrateVestingAccount ==
    /\ ~vestingTrace.migrated
    /\ authAccount.type = "ContinuousVestingAccount"
    /\ LET out == MigrateVestingAccount(authAccount, vestingBank, delegationRecord,
                                        validatorRecord, feePool, blockTime)
       IN  /\ authAccount' = out.account
           /\ vestingBank' = out.bank
           /\ delegationRecord' = out.delegation
           /\ validatorRecord' = out.validator
           /\ feePool' = out.feePool
    /\ vestingTrace' = [vestingTrace EXCEPT !.migrated = TRUE]
    /\ UNCHANGED blockTime
    /\ UNCHANGED <<feeVars, calcVars, upgradeVars, refundVars, commissionVars, pairVars>>

NextVesting ==
    \/ \E amt \in 1..MaxOrig \cup {100} : RunDelegate(amt)
    \/ RunMigrateVestingAccount

SpecVesting == InitVesting /\ [][NextVesting]_vars

----------------------------------------------------------------------------
(* Properties of MigrateVestingAccount *)

\* the coins held by the account and the module accounts together
TotalCoins(bank) ==
    bank["account"] + bank["bonded_tokens_pool"] + bank["not_bonded_tokens_pool"]
        + bank["distribution"]

====
